---------------------------- MODULE Spec2Model ----------------------------
(***************************************************************************)
(* Model of the two fixture generators of nail-parquet:                    *)
(*   src/create_test_samples.py  (Variant B: generate_data, write_files,   *)
(*                                main)                                    *)
(*   src/create_test_data.py     (Variant A: create_test_data)             *)
(*                                                                         *)
(* Conventions.                                                            *)
(*  - A calendar date is its proleptic Gregorian ordinal (date.toordinal), *)
(*    so `today - timedelta(days=i)` is integer subtraction.               *)
(*  - A Python float is its value in thousandths (1.1 is 1100).  The       *)
(*    binary representation error of i * 1.1 is below 1e-12 for the row    *)
(*    counts explored, far from the half-hundredth where round(x, 2)       *)
(*    changes its answer, so decimal arithmetic gives what the code gives. *)
(*  - A dict (a row of generate_data, the column dict of create_test_data) *)
(*    is a sequence of <<key, value>> pairs: insertion order is kept, as   *)
(*    pandas derives the column order from it.                             *)
(*  - A file on disk is <<>> (absent) or <<content>>; the directory        *)
(*    test_data of Variant A is <<>> (absent) or <<"dir">>.                *)
(*  - The two standard streams are what the interpreter makes of them: a   *)
(*    print to a stream on a full device raises OSError when the stream is *)
(*    flushed, which is at the print for the error stream and for an       *)
(*    unbuffered standard output (python -u), and at interpreter exit for  *)
(*    a buffered standard output.                                          *)
(***************************************************************************)
EXTENDS Integers, Sequences, FiniteSets, TLC

VARIABLES
  pc,         \* control point of the running script
  args,       \* parsed command line: [sample_rows, sample2_rows]
  idx,        \* position of main's for loop in its dataset list
  today,      \* last value read from the calendar clock (date.today())
  df,         \* the table held by main / passed to write_files
  path_prefix,\* the path stem passed to write_files
  dirLevel,   \* how many components of the destination directory exist
  created,    \* directories created by the current process (history)
  files,      \* the files on disk, by path
  stdout,     \* lines print() has handed to standard output
  stderr,     \* lines that reached the error stream
  exitCode,   \* exit status of the process (-1 while running)
  attempts,   \* try blocks run by the current write_files call (history)
  synth,      \* function-level harness: inputs and recorded results
  io,         \* condition of the standard streams, fixed while a process runs
  rng         \* state of the global generator of np.random

vars == <<pc, args, idx, today, df, path_prefix, dirLevel, created, files,
          stdout, stderr, exitCode, attempts, synth, io, rng>>

---------------------------------------------------------------------------
(* Bounds of the model *)

MaxRows == 12      \* row counts given to generate_data directly: 0..MaxRows
MaxArgRows == 1    \* row counts of the tables given to repeated calls: 0..MaxArgRows
FirstDay == 100    \* ordinal of the first day the clock can show
MaxDays == 1       \* the clock can advance this many days during a check
PathDepth == 2     \* components of the destination directory that may be missing
MaxCalls == 2      \* recorded synthesizer calls per function-level check

Days == FirstDay..(FirstDay + MaxDays)

---------------------------------------------------------------------------
(* Python / pandas primitives used by the scripts *)

Digit(d) ==
  CASE d = 0 -> "0" [] d = 1 -> "1" [] d = 2 -> "2" [] d = 3 -> "3" [] d = 4 -> "4"
    [] d = 5 -> "5" [] d = 6 -> "6" [] d = 7 -> "7" [] d = 8 -> "8" [] d = 9 -> "9"

RECURSIVE str(_)
\* str(i) of a non-negative int, as the f-string formats it
str(i) == IF i < 10 THEN Digit(i) ELSE str(i \div 10) \o Digit(i % 10)

\* round(x, 2) of a float given in thousandths: to the nearest hundredth,
\* a tie going to the even hundredth
round2(x) ==
  LET q == x \div 10
      r == x % 10
  IN  IF r < 5 THEN q * 10
      ELSE IF r > 5 THEN (q + 1) * 10
      ELSE IF q % 2 = 0 THEN q * 10 ELSE (q + 1) * 10

\* pd.DataFrame(list of dicts): the columns are the keys of the dicts in
\* insertion order (every dict built by generate_data has the same keys),
\* and a list with no dict in it gives a table with no column at all
DataFrame(data) ==
  [columns |-> IF data = <<>> THEN <<>>
               ELSE [j \in DOMAIN data[1] |-> data[1][j][1]],
   rows    |-> [r \in DOMAIN data |-> [j \in DOMAIN data[r] |-> data[r][j][2]]]]

\* len(df)
NumRows(t) == Len(t.rows)

\* df[col][r - 1]
Cell(t, r, col) == t.rows[r][CHOOSE j \in DOMAIN t.columns : t.columns[j] = col]

\* df.to_csv(path, index=False): a header line and one line per row
to_csv(t) == [format |-> "csv", header |-> t.columns, lines |-> t.rows]

\* df.to_json(path, orient='records', date_format='iso'): one object per row,
\* keyed by column name; a table without rows is the empty list
to_json(t) ==
  [format |-> "json",
   records |-> [r \in DOMAIN t.rows |->
                  [j \in DOMAIN t.columns |-> <<t.columns[j], t.rows[r][j]>>]]]

\* df.to_parquet(path, index=False)
to_parquet(t) == [format |-> "parquet", schema |-> t.columns, rowgroup |-> t.rows]

\* df.to_excel(path, index=False): one sheet, a header row and the data rows
to_excel(t) == [format |-> "xlsx", header |-> t.columns, cells |-> t.rows]

---------------------------------------------------------------------------
(* create_test_samples.py: generate_data *)

categories == <<"A", "B", "C">>

\* variant: the category list indexed by i instead of i - 1
generate_row_shifted(prefix, i, now) ==
  << <<"id", i>>,
     <<"name", prefix \o "_item_" \o str(i)>>,
     <<"value", round2(i * 1100)>>,
     <<"date", now - i>>,
     <<"flag", i % 2 = 0>>,
     <<"category", categories[(i % Len(categories)) + 1]>> >>

\* the dict appended for loop index i; `now` is the value of date.today()
generate_row(prefix, i, now) ==
  << <<"id", i>>,
     <<"name", prefix \o "_item_" \o str(i)>>,
     <<"value", round2(i * 1100)>>,
     <<"date", now - i>>,
     <<"flag", i % 2 = 0>>,
     <<"category", categories[((i - 1) % Len(categories)) + 1]>> >>

\* generate_data(prefix, rows), with the clock reading made explicit
generate_data(prefix, rows, now) ==
  DataFrame([i \in 1..rows |-> generate_row(prefix, i, now)])


---------------------------------------------------------------------------
(* The standard streams and the end of a process *)

\* The conditions the streams of one process can be in: standard output and
\* the error stream each on a device that takes what is written or on a full
\* one, the interpreter started with or without -u (PYTHONUNBUFFERED).
Environments == [unbuffered : BOOLEAN, stdoutFull : BOOLEAN, stderrFull : BOOLEAN]

\* a terminal: both streams take every line
Terminal == [unbuffered |-> FALSE, stdoutFull |-> FALSE, stderrFull |-> FALSE]

\* str(e) of the OSError a write to a full device raises
NoSpace == "[Errno 28] No space left on device"

\* first line of the traceback the interpreter prints for an exception
\* nothing caught (the frames and the exception line after it are not kept)
Traceback == "Traceback (most recent call last):"

\* what the interpreter prints when it cannot flush standard output at exit
FlushWarning ==
  << "Exception ignored in: <_io.TextIOWrapper name='<stdout>' mode='w' encoding='utf-8'>",
     "OSError: " \o NoSpace >>

\* print(line) raises: an unbuffered standard output writes at once
StdoutRaises == io.stdoutFull /\ io.unbuffered

\* print(line, file=sys.stderr) raises: the error stream is flushed at every
\* line, buffered or not
StderrRaises == io.stderrFull

\* The interpreter ends the process, after main returned or with an
\* exception nothing caught (`uncaught`); `out` are the lines handed to
\* standard output, `err` the lines on the error stream.  The traceback goes
\* to the error stream; lines still in the buffer of a full standard output
\* are lost and reported on the error stream.  The status is 120 when a
\* stream could not be flushed (text left in the buffer of a full stream),
\* else 1 for the exception, else 0.
Finalize(uncaught, out, err) ==
  LET tb == IF uncaught THEN <<Traceback>> ELSE <<>>
      outFails == io.stdoutFull /\ ~io.unbuffered /\ out # <<>>
      said == tb \o (IF outFails THEN FlushWarning ELSE <<>>)
      errFails == io.stderrFull /\ ~io.unbuffered /\ said # <<>>
  IN  [status |-> IF outFails \/ errFails THEN 120 ELSE IF uncaught THEN 1 ELSE 0,
       stdout |-> IF outFails THEN <<>> ELSE out,
       stderr |-> IF io.stderrFull THEN err ELSE err \o said]

---------------------------------------------------------------------------
(* create_test_samples.py: write_files *)

\* base directory of the fixtures (--base-dir) and main's dataset list
fixtures_dir == "fixtures"
datasets == <<"sample", "sample2">>

\* fixtures_dir / prefix
PathPrefix(prefix) == fixtures_dir \o "/" \o prefix

csv_path == path_prefix \o ".csv"
json_path == path_prefix \o ".json"
parquet_path == path_prefix \o ".parquet"
xlsx_path == path_prefix \o ".xlsx"

Suffixes == {".csv", ".json", ".parquet", ".xlsx"}
AllPaths ==
  {PathPrefix(datasets[k]) \o s : k \in DOMAIN datasets, s \in Suffixes}
    \cup {"test_data", "test_data/test_reviews.parquet"}

\* str(e) of the exceptions the export of format fmt to `path` raises in
\* the failures explored.  CSV and JSON are refused the file by open(),
\* whose PermissionError reads "[Errno 13] Permission denied: '<path>'";
\* Parquet is refused it by the Arrow writer, which words its
\* PermissionError itself; Excel lacks its optional encoder.  Of the
\* failures that come after the writer opened the file, running out of
\* space is explored for the CSV and the Excel writer.
ErrMsgs(fmt, path) ==
  (IF fmt = "Parquet"
     THEN {"[Errno 13] Failed to open local file '" \o path
             \o "'. Detail: [errno 13] Permission denied"}
   ELSE IF fmt = "Excel"
     THEN {"No module named 'openpyxl'"}
   ELSE {"[Errno 13] Permission denied: '" \o path \o "'"})
    \cup (IF fmt \in {"CSV", "Excel"} THEN {NoSpace} ELSE {})

\* what is left of a file whose writer opened it, which cuts it to length
\* zero, and raised before all of `content` was written
Partial(content) == [format |-> content.format, partial |-> TRUE]

\* How the export call of a try block can end: it returns, the file
\* written, or it raises with message msg, the file kept as it was when the
\* writer had not opened it yet and left cut otherwise.
Exports(fmt, path) ==
  {[raised |-> FALSE, msg |-> "", file |-> "written"]}
    \cup {[raised |-> TRUE, msg |-> m,
           file |-> IF m = NoSpace THEN "partial" ELSE "kept"] : m \in ErrMsgs(fmt, path)}

\* How one try block can end, given the streams of the process.
\*   raised:  "none", nothing raised; "export", the export raised and the
\*            print was not reached; "print", the export returned and the
\*            print of the success line raised.
\*   msg:     str(e) of the exception the except clause caught.
\*   file:    what the export did to the file.
\*   escaped: the print in the except clause raised in its turn; nothing
\*            catches that exception.
Outcomes(fmt, path) ==
  {[raised  |-> IF e.raised THEN "export" ELSE IF StdoutRaises THEN "print" ELSE "none",
    msg     |-> IF e.raised THEN e.msg ELSE IF StdoutRaises THEN NoSpace ELSE "",
    file    |-> e.file,
    escaped |-> (e.raised \/ StdoutRaises) /\ StderrRaises] : e \in Exports(fmt, path)}

\* Path.mkdir(parents, exist_ok) on a directory `level` of whose `depth`
\* components exist; `fault` is the component whose os.mkdir the
\* environment refuses (0: none).
mkdir(level, depth, parents, exist_ok, fault) ==
  IF level = depth
    THEN [raised |-> ~exist_ok, level |-> level]
  ELSE IF level < depth - 1 /\ ~parents
    THEN [raised |-> TRUE, level |-> level]
  ELSE IF fault = 0
    THEN [raised |-> FALSE, level |-> depth]
    ELSE [raised |-> TRUE, level |-> fault - 1]

\* variant: write_files without its mkdir line
Mkdir_absent ==
  /\ pc = "mkdir"
  /\ pc' = "to_csv"
  /\ UNCHANGED <<args, idx, today, df, path_prefix, dirLevel, created, files,
                 stdout, stderr, exitCode, attempts, synth, io, rng>>

\* variant: an OSError of mkdir is swallowed and the exports go ahead
Mkdir_swallowed ==
  /\ pc = "mkdir"
  /\ \E fault \in {0} \cup ((dirLevel + 1)..PathDepth) :
       LET r == mkdir(dirLevel, PathDepth, TRUE, TRUE, fault) IN
       /\ dirLevel' = r.level
       /\ created' = created + (r.level - dirLevel)
  /\ pc' = "to_csv"
  /\ UNCHANGED <<args, idx, today, df, path_prefix, files, stdout, stderr,
                 exitCode, attempts, synth, io, rng>>

\* path_prefix.parent.mkdir(parents=True, exist_ok=True); an OSError is not
\* caught anywhere: it leaves write_files and main and ends the process
Mkdir ==
  /\ pc = "mkdir"
  /\ \E fault \in {0} \cup ((dirLevel + 1)..PathDepth) :
       LET r == mkdir(dirLevel, PathDepth, TRUE, TRUE, fault)
           end == Finalize(TRUE, stdout, stderr)
       IN  /\ dirLevel' = r.level
           /\ created' = created + (r.level - dirLevel)
           /\ IF r.raised
                THEN /\ pc' = "exit"
                     /\ exitCode' = end.status
                     /\ stdout' = end.stdout
                     /\ stderr' = end.stderr
                ELSE /\ pc' = "to_csv"
                     /\ UNCHANGED <<exitCode, stdout, stderr>>
  /\ UNCHANGED <<args, idx, today, df, path_prefix, files, attempts, synth, io, rng>>

\* the file at `path` after an export of `content` that ended as `outcome`
Exported(path, content, outcome) ==
  IF outcome.file = "kept" THEN files
  ELSE IF outcome.file = "partial" THEN [files EXCEPT ![path] = <<Partial(content)>>]
  ELSE [files EXCEPT ![path] = <<content>>]

\* variant: no except clause, an exception raised in the block leaves
\* write_files
TryExport_nocatch(here, fmt, path, content, outcome, next) ==
  /\ pc = here
  /\ attempts' = Append(attempts, <<fmt, outcome>>)
  /\ files' = Exported(path, content, outcome)
  /\ IF outcome.raised = "none"
       THEN /\ stdout' = Append(stdout, "Written " \o fmt \o ": " \o path)
            /\ pc' = next
            /\ UNCHANGED <<stderr, exitCode>>
       ELSE LET end == Finalize(TRUE, stdout, stderr) IN
            /\ pc' = "exit"
            /\ exitCode' = end.status
            /\ stdout' = end.stdout
            /\ stderr' = end.stderr
  /\ UNCHANGED <<args, idx, today, df, path_prefix, dirLevel, created, synth, io, rng>>

\* variant: all-or-nothing, the first failing block ends the call
TryExport_abort(here, fmt, path, content, outcome, next) ==
  /\ pc = here
  /\ attempts' = Append(attempts, <<fmt, outcome>>)
  /\ files' = Exported(path, content, outcome)
  /\ IF outcome.raised = "none"
       THEN /\ stdout' = Append(stdout, "Written " \o fmt \o ": " \o path)
            /\ pc' = next
            /\ UNCHANGED stderr
       ELSE /\ stderr' = IF outcome.escaped THEN stderr
                         ELSE Append(stderr,
                                "Error writing " \o fmt \o " to " \o path \o ": " \o outcome.msg)
            /\ pc' = "ret"
            /\ UNCHANGED stdout
  /\ UNCHANGED <<args, idx, today, df, path_prefix, dirLevel, created, exitCode,
                 synth, io, rng>>

\* variant: an export that does not replace a file already there
TryExport_noclobber(here, fmt, path, content, outcome, next) ==
  /\ pc = here
  /\ attempts' = Append(attempts, <<fmt, outcome>>)
  /\ files' = IF files[path] # <<>> THEN files ELSE Exported(path, content, outcome)
  /\ IF outcome.raised = "none"
       THEN /\ stdout' = Append(stdout, "Written " \o fmt \o ": " \o path)
            /\ UNCHANGED stderr
       ELSE /\ stderr' = IF outcome.escaped THEN stderr
                         ELSE Append(stderr,
                                "Error writing " \o fmt \o " to " \o path \o ": " \o outcome.msg)
            /\ UNCHANGED stdout
  /\ pc' = next
  /\ UNCHANGED <<args, idx, today, df, path_prefix, dirLevel, created, exitCode,
                 synth, io, rng>>

\* One try block of write_files.  The try holds two statements, the export
\* and the print of the success line, and one except clause serves both:
\*  - the export raises: the print is not reached; the file is as the
\*    export left it;
\*  - the export returns, so the file holds `content`, and the print raises:
\*    no success line, although the file was written;
\*  - neither raises: the file holds `content`, the success line is printed.
\* In the first two cases the except clause prints the error line with
\* str(e).  That print is outside every try: when it raises (escaped) the
\* error line is lost, the exception leaves write_files and main, the
\* blocks after this one are not run and the interpreter ends the process.
TryExport(here, fmt, path, content, outcome, next) ==
  /\ pc = here
  /\ attempts' = Append(attempts, <<fmt, outcome>>)
  /\ files' = Exported(path, content, outcome)
  /\ IF outcome.raised = "none"
       THEN /\ stdout' = Append(stdout, "Written " \o fmt \o ": " \o path)
            /\ pc' = next
            /\ UNCHANGED <<stderr, exitCode>>
     ELSE IF ~outcome.escaped
       THEN /\ stderr' = Append(stderr,
                 "Error writing " \o fmt \o " to " \o path \o ": " \o outcome.msg)
            /\ pc' = next
            /\ UNCHANGED <<stdout, exitCode>>
       ELSE LET end == Finalize(TRUE, stdout, stderr) IN
            /\ pc' = "exit"
            /\ exitCode' = end.status
            /\ stdout' = end.stdout
            /\ stderr' = end.stderr
  /\ UNCHANGED <<args, idx, today, df, path_prefix, dirLevel, created, synth, io, rng>>

\* variant: the Parquet block moved in front of the JSON block
ToCsv_reordered ==
  \E o \in Outcomes("CSV", csv_path) :
    TryExport("to_csv", "CSV", csv_path, to_csv(df), o, "to_parquet")

ToCsv ==
  \E o \in Outcomes("CSV", csv_path) :
    TryExport("to_csv", "CSV", csv_path, to_csv(df), o, "to_json")

ToJson ==
  \E o \in Outcomes("JSON", json_path) :
    TryExport("to_json", "JSON", json_path, to_json(df), o, "to_parquet")

ToParquet ==
  \E o \in Outcomes("Parquet", parquet_path) :
    TryExport("to_parquet", "Parquet", parquet_path, to_parquet(df), o, "to_excel")

ToExcel ==
  \E o \in Outcomes("Excel", xlsx_path) :
    TryExport("to_excel", "Excel", xlsx_path, to_excel(df), o, "ret")

---------------------------------------------------------------------------
(* create_test_samples.py: main *)

\* the row count main passes for dataset k
RowsOf(k) == IF k = 1 THEN args.sample_rows ELSE args.sample2_rows

NoFiles == [p \in AllPaths |-> <<>>]
NoSynth == [prefix |-> "", rows |-> 0, entropy |-> 0, runs |-> <<>>, runsA |-> <<>>]

\* the generator of a process that does not use np.random
NoRng == [key |-> 0, pos |-> 0]

\* the command lines explored: the defaults (5 and 8 rows) and an explicit
\* --sample-rows 0 --sample2-rows 1
CommandLines ==
  {[sample_rows |-> 5, sample2_rows |-> 8], [sample_rows |-> 0, sample2_rows |-> 1]}

\* the process after parse_args, in front of the for loop
Init ==
  /\ pc = "loop"
  /\ args \in CommandLines
  /\ idx = 1
  /\ today = FirstDay
  /\ df = DataFrame(<<>>)
  /\ path_prefix = ""
  /\ dirLevel \in 0..PathDepth
  /\ created = 0
  /\ files = NoFiles
  /\ stdout = <<>>
  /\ stderr = <<>>
  /\ exitCode = -1
  /\ attempts = <<>>
  /\ synth = NoSynth
  /\ io \in Environments
  /\ rng = NoRng

\* loop body up to the call of write_files: the path stem, the table
\* (date.today() is read: since the last reading midnight has passed or
\* not), the call
LoopBody ==
  /\ pc = "loop"
  /\ idx <= Len(datasets)
  /\ \E now \in {today, today + 1} \cap Days :
       /\ today' = now
       /\ df' = generate_data(datasets[idx], RowsOf(idx), now)
  /\ path_prefix' = PathPrefix(datasets[idx])
  /\ attempts' = <<>>
  /\ pc' = "mkdir"
  /\ UNCHANGED <<args, idx, dirLevel, created, files, stdout, stderr, exitCode,
                 synth, io, rng>>

\* write_files has returned: the loop takes the next dataset
LoopNext ==
  /\ pc = "ret"
  /\ idx' = idx + 1
  /\ pc' = "loop"
  /\ UNCHANGED <<args, today, df, path_prefix, dirLevel, created, files, stdout,
                 stderr, exitCode, attempts, synth, io, rng>>

\* variant: a non-zero status when anything was written to the error stream
MainReturn_status ==
  /\ pc = "loop"
  /\ idx > Len(datasets)
  /\ pc' = "exit"
  /\ exitCode' = IF stderr = <<>> THEN 0 ELSE 1
  /\ UNCHANGED <<args, idx, today, df, path_prefix, dirLevel, created, files,
                 stdout, stderr, attempts, synth, io, rng>>

\* the list is exhausted: main returns and the interpreter ends the process
MainReturn ==
  /\ pc = "loop"
  /\ idx > Len(datasets)
  /\ LET end == Finalize(FALSE, stdout, stderr) IN
       /\ pc' = "exit"
       /\ exitCode' = end.status
       /\ stdout' = end.stdout
       /\ stderr' = end.stderr
  /\ UNCHANGED <<args, idx, today, df, path_prefix, dirLevel, created, files,
                 attempts, synth, io, rng>>

Next ==
  \/ LoopBody
  \/ Mkdir
  \/ ToCsv
  \/ ToJson
  \/ ToParquet
  \/ ToExcel
  \/ LoopNext
  \/ MainReturn

Spec == Init /\ [][Next]_vars

---------------------------------------------------------------------------
(* One call of write_files *)

\* the tables a caller passes: those generate_data builds for 'sample'
Tables == {generate_data(datasets[1], n, FirstDay) : n \in 0..MaxArgRows}

\* write_files(t, path_prefix) has just been called
InitCall ==
  /\ pc = "mkdir"
  /\ args = [sample_rows |-> 0, sample2_rows |-> 0]
  /\ idx = 1
  /\ today = FirstDay
  /\ df \in Tables
  /\ path_prefix = PathPrefix(datasets[1])
  /\ dirLevel \in 0..PathDepth
  /\ created = 0
  /\ files = NoFiles
  /\ stdout = <<>>
  /\ stderr = <<>>
  /\ exitCode = -1
  /\ attempts = <<>>
  /\ synth = NoSynth
  /\ io \in Environments
  /\ rng = NoRng

NextCall ==
  \/ Mkdir
  \/ ToCsv
  \/ ToJson
  \/ ToParquet
  \/ ToExcel

SpecCall == InitCall /\ [][NextCall]_vars

\* a call that has started runs on: write_files is straight-line code with
\* no loop and no wait in it
LiveSpecCall == SpecCall /\ WF_vars(NextCall)

---------------------------------------------------------------------------
(* write_files called again and again on one path stem, by one process    *)
(* after the other                                                         *)

InitW ==
  /\ pc = "idle"
  /\ args = [sample_rows |-> 0, sample2_rows |-> 0]
  /\ idx = 1
  /\ today = FirstDay
  /\ df = DataFrame(<<>>)
  /\ path_prefix = PathPrefix(datasets[1])
  /\ dirLevel \in 0..PathDepth
  /\ created = 0
  /\ files = NoFiles
  /\ stdout = <<>>
  /\ stderr = <<>>
  /\ exitCode = -1
  /\ attempts = <<>>
  /\ synth = NoSynth
  /\ io = Terminal
  /\ rng = NoRng

\* write_files(t, path_prefix) is called, after the call before it returned
\* or, when that call ended its process, by a new process with its own
\* streams; the two streams are captured per call
Call ==
  /\ pc \in {"idle", "ret", "exit"}
  /\ \E t \in Tables : df' = t
  /\ io' \in (IF pc = "ret" THEN {io} ELSE Environments)
  /\ attempts' = <<>>
  /\ stdout' = <<>>
  /\ stderr' = <<>>
  /\ exitCode' = -1
  /\ created' = 0
  /\ pc' = "mkdir"
  /\ UNCHANGED <<args, idx, today, path_prefix, dirLevel, files, synth, rng>>

NextW ==
  \/ Call
  \/ Mkdir
  \/ ToCsv
  \/ ToJson
  \/ ToParquet
  \/ ToExcel

SpecW == InitW /\ [][NextW]_vars

---------------------------------------------------------------------------
(* create_test_data.py *)

n_rows == 1000
Seed == 42
StartDate == 738521   \* date(2023, 1, 1).toordinal()

\* The global generator of np.random.  Its values come from the library's
\* Mersenne Twister, which is not part of this repository; Draw stands for
\* it and keeps what the library documents: a draw is a function of the
\* state the last seeding left (key) and of the number of draws made since
\* (pos), and of nothing else.  A process that has not seeded the
\* generator starts from operating-system entropy.
Entropy == {7, 11}

np_random_seed(seed) == [key |-> seed, pos |-> 0]

Draw(g, k) == (g.key * 7919 + (g.pos + k) * 104729) % 65521

\* np.random.choice(a, n): n draws, each an element of a
np_random_choice(g, a, n) == [k \in 1..n |-> a[(Draw(g, k) % Len(a)) + 1]]

\* np.random.randint(low, high, n): n draws in low..high-1
np_random_randint(g, low, high, n) == [k \in 1..n |-> low + (Draw(g, k) % (high - low))]

\* the generator after n more draws
Advance(g, n) == [g EXCEPT !.pos = @ + n]

\* [f'{name}_{i}' for i in range(n)]
Labels(name, n) == [k \in 1..n |-> name \o "_" \o str(k - 1)]

\* pd.date_range(start, periods=n, freq='D')[:n]
date_range(start, n) == [k \in 1..n |-> start + (k - 1)]

\* the dict `data`, its values evaluated in source order from generator g0
TestColumns(g0) ==
  LET n  == n_rows
      g1 == Advance(g0, n)
      g2 == Advance(g1, n)
      g3 == Advance(g2, n)
      g4 == Advance(g3, n)
      g5 == Advance(g4, n)
      g6 == Advance(g5, n)
      g7 == Advance(g6, n)
      g8 == Advance(g7, n)
      g9 == Advance(g8, n)
  IN << <<"source", np_random_choice(g0, <<"source_A", "source_B", "source_C">>, n)>>,
        <<"product", Labels("product", n)>>,
        <<"overall_rating", np_random_randint(g1, 1, 6, n)>>,
        <<"condition", np_random_choice(g2, <<"condition_1", "condition_2", "condition_3">>, n)>>,
        <<"comment", Labels("comment", n)>>,
        <<"sex", np_random_choice(g3, <<"M", "F">>, n)>>,
        <<"duration", np_random_randint(g4, 1, 365, n)>>,
        <<"date", date_range(StartDate, n)>>,
        <<"age", np_random_randint(g5, 18, 80, n)>>,
        <<"username", Labels("user", n)>>,
        <<"patient_type", np_random_choice(g6, <<"type_A", "type_B">>, n)>>,
        <<"INN", np_random_choice(g7, <<"INN_1", "INN_2", "INN_3">>, n)>>,
        <<"prediction", np_random_choice(g8, <<"positive", "negative", "neutral">>, n)>>,
        <<"predicted_label", np_random_randint(g9, 0, 3, n)>> >>

\* pd.DataFrame(dict of columns)
DataFrameOfColumns(data) ==
  [columns |-> [j \in DOMAIN data |-> data[j][1]],
   rows    |-> IF data = <<>> THEN <<>>
               ELSE [r \in DOMAIN data[1][2] |-> [j \in DOMAIN data |-> data[j][2][r]]]]

output_dir == "test_data"
output_file == output_dir \o "/" \o "test_reviews.parquet"

\* str(dtype) of a column of the table
Dtype(col) ==
  IF col \in {"overall_rating", "duration", "age", "predicted_label"} THEN "int64"
  ELSE IF col = "date" THEN "datetime64[ns]"
  ELSE "object"

RECURSIVE Join(_, _)
\* ', '.join(repr(c) for c in cols[k:])
Join(cols, k) ==
  IF k > Len(cols) THEN ""
  ELSE "'" \o cols[k] \o "'" \o (IF k < Len(cols) THEN ", " ELSE "") \o Join(cols, k + 1)

\* the lines create_test_data prints for table t
Report(t) ==
  << "Created test data: " \o output_file,
     "Columns: [" \o Join(t.columns, 1) \o "]",
     "Data types:" >>
    \o [j \in DOMAIN t.columns |-> "  " \o t.columns[j] \o ": " \o Dtype(t.columns[j])]


\* a new process runs create_test_data.py, which takes no parameters: its
\* generator starts from operating-system entropy, its streams are as the
\* caller set them up
StartCreateTestData ==
  /\ pc \in {"harness", "exit"}
  /\ synth.runs = <<>>
  /\ Len(synth.runsA) < MaxCalls
  /\ \E e \in Entropy :
       /\ rng' = [key |-> e, pos |-> 0]
       /\ synth' = [synth EXCEPT !.prefix = "", !.rows = 0, !.entropy = e]
  /\ io' \in Environments
  /\ df' = DataFrame(<<>>)
  /\ stdout' = <<>>
  /\ stderr' = <<>>
  /\ exitCode' = -1
  /\ pc' = "seed"
  /\ UNCHANGED <<args, idx, today, path_prefix, dirLevel, created, files, attempts>>

\* variant: create_test_data without its np.random.seed line
SeedGenerator_skipped ==
  /\ pc = "seed"
  /\ pc' = "data"
  /\ UNCHANGED <<args, idx, today, df, path_prefix, dirLevel, created, files,
                 stdout, stderr, exitCode, attempts, synth, io, rng>>

\* np.random.seed(42): the state the process started with is replaced
SeedGenerator ==
  /\ pc = "seed"
  /\ rng' = np_random_seed(Seed)
  /\ pc' = "data"
  /\ UNCHANGED <<args, idx, today, df, path_prefix, dirLevel, created, files,
                 stdout, stderr, exitCode, attempts, synth, io>>

\* data = {...}; df = pd.DataFrame(data): the ten np.random calls draw
\* n_rows values each from the generator as it stands
BuildTestData ==
  /\ pc = "data"
  /\ df' = DataFrameOfColumns(TestColumns(rng))
  /\ rng' = Advance(rng, 10 * n_rows)
  /\ synth' = [synth EXCEPT !.runsA = Append(@, [entropy |-> synth.entropy, table |-> df'])]
  /\ pc' = "mkdir_out"
  /\ UNCHANGED <<args, idx, today, path_prefix, dirLevel, created, files,
                 stdout, stderr, exitCode, attempts, io>>

\* output_dir.mkdir(exist_ok=True); an OSError is not caught
MkdirOutputDir ==
  /\ pc = "mkdir_out"
  /\ LET level == IF files[output_dir] = <<>> THEN 0 ELSE 1 IN
     \E fault \in {0} \cup ((level + 1)..1) :
       LET r == mkdir(level, 1, FALSE, TRUE, fault)
           end == Finalize(TRUE, stdout, stderr)
       IN  /\ files' = IF r.level = 1 THEN [files EXCEPT ![output_dir] = <<"dir">>]
                       ELSE files
           /\ IF r.raised
                THEN /\ pc' = "exit"
                     /\ exitCode' = end.status
                     /\ stdout' = end.stdout
                     /\ stderr' = end.stderr
                ELSE /\ pc' = "to_parquet_out"
                     /\ UNCHANGED <<exitCode, stdout, stderr>>
  /\ UNCHANGED <<args, idx, today, df, path_prefix, dirLevel, created, attempts,
                 synth, io, rng>>

\* df.to_parquet(output_file, index=False); an exception is not caught
WriteTestParquet ==
  /\ pc = "to_parquet_out"
  /\ \E e \in Exports("Parquet", output_file) :
       LET end == Finalize(TRUE, stdout, stderr) IN
       /\ files' = Exported(output_file, to_parquet(df), e)
       /\ IF e.raised
            THEN /\ pc' = "exit"
                 /\ exitCode' = end.status
                 /\ stdout' = end.stdout
                 /\ stderr' = end.stderr
            ELSE /\ pc' = "report"
                 /\ UNCHANGED <<exitCode, stdout, stderr>>
  /\ UNCHANGED <<args, idx, today, df, path_prefix, dirLevel, created, attempts,
                 synth, io, rng>>

\* the prints of the report, the return and the end of the process.  No
\* print is inside a try: when standard output raises, the first print
\* ends the process with the file already written.
PrintReport ==
  /\ pc = "report"
  /\ LET end == IF StdoutRaises THEN Finalize(TRUE, stdout, stderr)
                ELSE Finalize(FALSE, stdout \o Report(df), stderr)
     IN  /\ pc' = "exit"
         /\ exitCode' = end.status
         /\ stdout' = end.stdout
         /\ stderr' = end.stderr
  /\ UNCHANGED <<args, idx, today, df, path_prefix, dirLevel, created, files,
                 attempts, synth, io, rng>>

---------------------------------------------------------------------------
(* The synthesizers called directly, their results recorded in synth *)

HarnessInit(RowCounts) ==
  /\ pc = "harness"
  /\ args = [sample_rows |-> 0, sample2_rows |-> 0]
  /\ idx = 1
  /\ today = FirstDay
  /\ df = DataFrame(<<>>)
  /\ path_prefix = ""
  /\ dirLevel = 0
  /\ created = 0
  /\ files \in {NoFiles, [NoFiles EXCEPT ![output_dir] = <<"dir">>]}
  /\ stdout = <<>>
  /\ stderr = <<>>
  /\ exitCode = -1
  /\ attempts = <<>>
  /\ \E prefix \in {datasets[k] : k \in DOMAIN datasets}, rows \in RowCounts :
       synth = [prefix |-> prefix, rows |-> rows, entropy |-> 0,
                runs |-> <<>>, runsA |-> <<>>]
  /\ io = Terminal
  /\ rng = NoRng

\* df = generate_data(prefix, rows), on the day the clock shows
CallGenerateData ==
  /\ pc = "harness"
  /\ synth.runsA = <<>>
  /\ Len(synth.runs) < MaxCalls
  /\ \E now \in Days :
       /\ now >= today
       /\ today' = now
       /\ df' = generate_data(synth.prefix, synth.rows, now)
       /\ synth' = [synth EXCEPT !.runs = Append(@, [now |-> now, table |-> df'])]
  /\ UNCHANGED <<pc, args, idx, path_prefix, dirLevel, created, files, stdout,
                 stderr, exitCode, attempts, io, rng>>

\* generate_data alone, over the whole range of row counts
InitGen == HarnessInit(0..MaxRows)

NextGen == CallGenerateData

SpecGen == InitGen /\ [][NextGen]_vars

\* one of the two synthesizers, run repeatedly with the same parameters
InitDet == HarnessInit(0..MaxArgRows)

NextDet ==
  \/ CallGenerateData
  \/ StartCreateTestData
  \/ SeedGenerator
  \/ BuildTestData
  \/ MkdirOutputDir
  \/ WriteTestParquet
  \/ PrintReport

SpecDet == InitDet /\ [][NextDet]_vars

---------------------------------------------------------------------------
(* Vocabulary of the properties *)

Formats == <<"CSV", "JSON", "Parquet", "Excel">>
FormatSet == {Formats[k] : k \in DOMAIN Formats}

SuffixOf(f) ==
  CASE f = "CSV" -> ".csv" [] f = "JSON" -> ".json"
    [] f = "Parquet" -> ".parquet" [] f = "Excel" -> ".xlsx"

\* what a file of format f holds when it is derived from table t
ContentOf(f, t) ==
  CASE f = "CSV" -> to_csv(t) [] f = "JSON" -> to_json(t)
    [] f = "Parquet" -> to_parquet(t) [] f = "Excel" -> to_excel(t)

WrittenLine(f, stem) == "Written " \o f \o ": " \o stem \o SuffixOf(f)
ErrorLine(f, stem, msg) == "Error writing " \o f \o " to " \o stem \o SuffixOf(f) \o ": " \o msg
\* every error line the except clause of format f can print
ErrorLines(f, stem) ==
  {ErrorLine(f, stem, m) : m \in ErrMsgs(f, stem \o SuffixOf(f)) \cup {NoSpace}}

Count(seq, S) == Cardinality({j \in DOMAIN seq : seq[j] \in S})

\* the formats the current call has attempted, in call order
Attempted == [j \in DOMAIN attempts |-> attempts[j][1]]
\* the formats whose export raised in the current call
RaisedSet ==
  {attempts[j][1] : j \in {i \in DOMAIN attempts : attempts[i][2].raised = "export"}}
\* the formats whose export returned and whose success print raised
PrintRaisedSet ==
  {attempts[j][1] : j \in {i \in DOMAIN attempts : attempts[i][2].raised = "print"}}
\* the message of the exception caught in the block of f
MsgOf(f) == attempts[CHOOSE j \in DOMAIN attempts : attempts[j][1] = f][2].msg
\* an exception has left the current call through an except clause
Propagated == \E j \in DOMAIN attempts : attempts[j][2].escaped

FixturePaths == {PathPrefix(datasets[k]) \o SuffixOf(f) : k \in DOMAIN datasets, f \in FormatSet}
\* the file at p holds a whole export
Whole(p) == files[p] # <<>> /\ "partial" \notin DOMAIN files[p][1]
\* every path of both datasets has exactly one line, a success line on
\* standard output or an error line on the error stream
OneLinePerPath ==
  \A k \in DOMAIN datasets, f \in FormatSet :
    Count(stdout, {WrittenLine(f, PathPrefix(datasets[k]))})
      + Count(stderr, ErrorLines(f, PathPrefix(datasets[k]))) = 1

---------------------------------------------------------------------------
(* Properties of write_files and main, specification Spec (C2: LiveSpecCall) *)

\* C1 as stated: no exception raised in a try block propagates out of
\* write_files; and when exactly one of the four exports of a call raises,
\* the other three files hold the table and each has its "Written" line on
\* standard output, and the error stream has exactly one error line, that
\* of the failing format, naming its path and the message.
C1_PartialFailureIsolation ==
  /\ ~Propagated
  /\ \A f \in FormatSet :
       (pc = "ret" /\ RaisedSet = {f}) =>
         /\ \A g \in FormatSet \ {f} :
              /\ files[path_prefix \o SuffixOf(g)] = <<ContentOf(g, df)>>
              /\ Count(stdout, {WrittenLine(g, path_prefix)}) = 1
         /\ Count(stdout, {WrittenLine(f, path_prefix)}) = 0
         /\ Count(stderr, {ErrorLine(f, path_prefix, MsgOf(f))}) = 1
         /\ Count(stderr, UNION {ErrorLines(g, path_prefix) : g \in FormatSet}) = 1

\* C1 amended.  A call past its mkdir ends the process only by an exception
\* that propagates out of a try block, and an exception caught in a try
\* block propagates exactly when the error stream refuses the error line: then
\* the block is the last one run, no error line is printed for it, the files
\* of the later formats are not touched and the process ends with status 1
\* or 120.  Otherwise the call returns, and when exactly one of its four
\* exports raised, the other three files hold the table; each of the three
\* has its "Written" line on standard output and no error line, unless
\* printing that line raised: then it has no "Written" line and one error
\* line with the print's message.  The failing format has no "Written" line
\* and exactly one error line, naming its path and the message.
C1_IsolationWhileErrorLinePrints ==
  /\ (pc = "exit" /\ attempts # <<>> /\ idx <= Len(datasets)) => Propagated
  /\ \A j \in DOMAIN attempts :
       LET f == attempts[j][1]
           o == attempts[j][2]
       IN  /\ o.escaped <=> (o.raised # "none" /\ io.stderrFull)
           /\ o.escaped =>
                /\ j = Len(attempts)
                /\ pc = "exit"
                /\ exitCode \in {1, 120}
                /\ Count(stderr, ErrorLines(f, path_prefix)) = 0
                /\ \A k \in (j + 1)..Len(Formats) :
                     files[path_prefix \o SuffixOf(Formats[k])] = <<>>
  /\ \A f \in FormatSet :
       (pc = "ret" /\ RaisedSet = {f}) =>
         /\ \A g \in FormatSet \ {f} :
              /\ files[path_prefix \o SuffixOf(g)] = <<ContentOf(g, df)>>
              /\ IF g \in PrintRaisedSet
                   THEN /\ Count(stdout, {WrittenLine(g, path_prefix)}) = 0
                        /\ Count(stderr, ErrorLines(g, path_prefix)) = 1
                        /\ Count(stderr, {ErrorLine(g, path_prefix, NoSpace)}) = 1
                   ELSE /\ Count(stdout, {WrittenLine(g, path_prefix)}) = 1
                        /\ Count(stderr, ErrorLines(g, path_prefix)) = 0
         /\ Count(stdout, {WrittenLine(f, path_prefix)}) = 0
         /\ Count(stderr, ErrorLines(f, path_prefix)) = 1
         /\ Count(stderr, {ErrorLine(f, path_prefix, MsgOf(f))}) = 1
         /\ MsgOf(f) \in ErrMsgs(f, path_prefix \o SuffixOf(f))

C1_Witness ==
  /\ pc = "ret"
  /\ idx = 2
  /\ RaisedSet = {"CSV"}
  /\ PrintRaisedSet = {"JSON", "Parquet", "Excel"}
  /\ files[json_path] = <<to_json(df)>>
  /\ stderr[Len(stderr) - 3] =
       "Error writing CSV to fixtures/sample2.csv: [Errno 13] Permission denied: 'fixtures/sample2.csv'"
  /\ stderr[Len(stderr)] =
       "Error writing Excel to fixtures/sample2.xlsx: [Errno 28] No space left on device"

\* C2 as stated: a write_files call whose mkdir succeeded always returns,
\* and when it returns each of the four formats has been attempted exactly
\* once, whatever the four outcomes were.
C2_EachFormatOnce ==
  /\ [](pc = "ret" =>
          \A f \in FormatSet : Cardinality({j \in DOMAIN attempts : attempts[j][1] = f}) = 1)
  /\ ((pc = "to_csv") ~> (pc = "ret"))

\* C2 amended: a write_files call whose mkdir succeeded always terminates
\* and attempts no format twice.  It returns, with each of the four formats
\* attempted exactly once, whenever the error stream accepts the error
\* lines.  It ends before that only by the exception of an error line that
\* could not be printed, right after the block that failed, the formats
\* after it skipped.
C2_EachFormatOnceUnlessCutShort ==
  /\ [](\A f \in FormatSet : Cardinality({j \in DOMAIN attempts : attempts[j][1] = f}) <= 1)
  /\ [](pc = "ret" =>
          \A f \in FormatSet : Cardinality({j \in DOMAIN attempts : attempts[j][1] = f}) = 1)
  /\ []((pc = "exit" /\ attempts # <<>>) =>
          /\ io.stderrFull
          /\ attempts[Len(attempts)][2].raised # "none"
          /\ \A j \in 1..(Len(attempts) - 1) : attempts[j][2].raised = "none")
  /\ ((pc = "to_csv") ~> (pc \in {"ret", "exit"}))
  /\ ((pc = "to_csv" /\ ~io.stderrFull) ~> (pc = "ret"))

C2_Witness ==
  /\ pc = "ret"
  /\ Len(attempts) = 4
  /\ RaisedSet = {"CSV", "Excel"}
  /\ PrintRaisedSet = {"JSON", "Parquet"}
  /\ files[csv_path] = <<Partial(to_csv(df))>>

\* C3: the exports of a call are attempted in the order CSV, JSON, Parquet,
\* Excel, one at a time: what has been attempted is always an initial part
\* of that order, the call stands in front of the next format, and a later
\* attempt starts only when every earlier one is finished, its success line
\* printed or its failure logged (a block whose failure could not be logged
\* is the last one of the process).
C3_FixedOrder ==
  /\ Attempted = SubSeq(Formats, 1, Len(attempts))
  /\ pc = "mkdir" => Len(attempts) = 0
  /\ pc = "to_csv" => Len(attempts) = 0
  /\ pc = "to_json" => Len(attempts) = 1
  /\ pc = "to_parquet" => Len(attempts) = 2
  /\ pc = "to_excel" => Len(attempts) = 3
  /\ pc = "ret" => Len(attempts) = 4
  /\ \A j \in DOMAIN attempts :
       /\ attempts[j][2].escaped => (j = Len(attempts) /\ pc = "exit")
       /\ pc # "exit" =>
            IF attempts[j][2].raised = "none"
              THEN /\ Count(stdout, {WrittenLine(attempts[j][1], path_prefix)}) = 1
                   /\ Count(stderr, ErrorLines(attempts[j][1], path_prefix)) = 0
              ELSE /\ Count(stdout, {WrittenLine(attempts[j][1], path_prefix)}) = 0
                   /\ Count(stderr, {ErrorLine(attempts[j][1], path_prefix, attempts[j][2].msg)}) = 1

C3_Witness ==
  /\ pc = "to_excel"
  /\ Attempted = <<"CSV", "JSON", "Parquet">>
  /\ RaisedSet = {"JSON"}
  /\ PrintRaisedSet = {"CSV", "Parquet"}

\* C4: whenever an export has been attempted or a fixture file exists, the
\* destination directory exists with all its parents; and a process that
\* ends in mkdir ends there because a component could not be created, never
\* because the directory was already there.
C4_DirectoryBeforeExport ==
  /\ (attempts # <<>> \/ \E p \in FixturePaths : files[p] # <<>>) => dirLevel = PathDepth
  /\ pc \in {"to_csv", "to_json", "to_parquet", "to_excel", "ret"} => dirLevel = PathDepth
  /\ (pc = "exit" /\ attempts = <<>> /\ idx <= Len(datasets)) =>
       (dirLevel < PathDepth /\ idx = 1)

C4_Witness ==
  /\ pc = "to_json"
  /\ idx = 1
  /\ created = PathDepth
  /\ files[csv_path] # <<>>

\* C5 as stated: a run of main whose exports were attempted ends with
\* status 0 and with both datasets exported: each of the eight paths has
\* exactly one line, a success line or an error line, also when all eight
\* are errors.
C5_ExitZero ==
  /\ pc # "exit" => exitCode = -1
  /\ (pc = "exit" /\ dirLevel = PathDepth) =>
       /\ exitCode = 0
       /\ OneLinePerPath

\* C5 amended: a run of main whose exports were attempted ends with status
\* 0, with both datasets exported and one line for each of the eight paths,
\* for every combination of export failures, provided the streams take what
\* is printed.  The run is cut short, at the failing block, exactly when the
\* error stream refuses an error line: the status is then 1, or 120 when the
\* streams are buffered.  A run that is not cut short exports both datasets;
\* its status is 0 unless success lines were left in the buffer of a full
\* standard output, which makes it 120 and loses those lines.
C5_ExitZeroWhenStreamsAccept ==
  /\ pc # "exit" => exitCode = -1
  /\ (pc = "exit" /\ dirLevel = PathDepth) =>
       LET last == attempts[Len(attempts)][2]
           lost == io.stdoutFull /\ ~io.unbuffered /\ \E p \in FixturePaths : Whole(p)
       IN  /\ Propagated <=> (io.stderrFull /\ last.raised # "none")
           /\ Propagated =>
                /\ idx <= Len(datasets)
                /\ exitCode = (IF io.unbuffered THEN 1 ELSE 120)
           /\ ~Propagated =>
                /\ idx > Len(datasets)
                /\ exitCode = (IF lost THEN 120 ELSE 0)
                /\ lost => stdout = <<>>
                /\ ~lost => OneLinePerPath
           /\ (~io.stdoutFull /\ ~io.stderrFull) => (exitCode = 0 /\ OneLinePerPath)

C5_Witness ==
  /\ pc = "exit"
  /\ exitCode = 0
  /\ Len(stderr) = 2 * Len(Formats)
  /\ stdout = <<>>
  /\ files = NoFiles
  /\ ~io.stdoutFull

\* C10: when mkdir raises, the process ends there with a non-zero status
\* (1, or 120 when the traceback is left in the buffer of a full error
\* stream): no export was attempted, no success or error line printed, no
\* file written, the loop still at 'sample', and nothing runs afterwards.
C10_MkdirFailureEndsProcess ==
  (dirLevel < PathDepth /\ pc \notin {"loop", "mkdir"}) =>
    /\ pc = "exit"
    /\ exitCode = (IF io.stderrFull /\ ~io.unbuffered THEN 120 ELSE 1)
    /\ idx = 1
    /\ attempts = <<>>
    /\ stdout = <<>>
    /\ stderr = (IF io.stderrFull THEN <<>> ELSE <<Traceback>>)
    /\ files = NoFiles
    /\ ~ENABLED Next

C10_Witness ==
  /\ pc = "exit"
  /\ exitCode = 1
  /\ created = PathDepth - 1
  /\ dirLevel = PathDepth - 1
  /\ stderr = <<Traceback>>

---------------------------------------------------------------------------
(* Properties of repeated write_files calls, specification SpecW *)

\* C9 as stated: after any sequence of calls on one stem, every sibling
\* that exists holds the content of the table of the most recent call.
C9_SiblingsOfLastTable ==
  pc = "ret" =>
    \A f \in FormatSet :
      files[path_prefix \o SuffixOf(f)] # <<>> =>
        files[path_prefix \o SuffixOf(f)] = <<ContentOf(f, df)>>

\* C9 amended: after any sequence of calls on one stem, every sibling whose
\* export returned in the most recent call holds the content of the table
\* of that call (a sibling whose export raised, or was not reached, need
\* not: see C9_Witness).
C9_ExportedSiblingsOfLastTable ==
  \A j \in DOMAIN attempts :
    attempts[j][2].raised # "export" =>
      files[path_prefix \o SuffixOf(attempts[j][1])] = <<ContentOf(attempts[j][1], df)>>

C9_Witness ==
  /\ pc = "ret"
  /\ RaisedSet = {"CSV"}
  /\ \E t \in Tables : t # df /\ files[csv_path] = <<to_csv(t)>>
  /\ files[json_path] = <<to_json(df)>>

---------------------------------------------------------------------------
(* Properties of the synthesizers, specifications SpecGen and SpecDet *)

DeclaredColumns == <<"id", "name", "value", "date", "flag", "category">>

\* C6: every table generate_data(prefix, N) returns has exactly N rows and
\* the columns id, name, value, date, flag, category, in that order, for
\* every N >= 0.
C6_RowsAndColumns ==
  \A j \in DOMAIN synth.runs :
    /\ NumRows(synth.runs[j].table) = synth.rows
    /\ synth.runs[j].table.columns = DeclaredColumns

\* C7: in the table of generate_data(prefix, N), row i has id i, name
\* prefix_item_i, value 1.1 * i to two decimals, flag true exactly for even
\* i, and category A, B, C for i - 1 = 0, 1, 2 modulo 3.
C7_RowContents ==
  \A j \in DOMAIN synth.runs :
    LET t == synth.runs[j].table IN
    \A i \in 1..synth.rows :
      /\ Cell(t, i, "id") = i
      /\ Cell(t, i, "name") = synth.prefix \o "_item_" \o ToString(i)
      /\ Cell(t, i, "value") = 1100 * i
      /\ Cell(t, i, "flag") = (i % 2 = 0)
      /\ Cell(t, i, "category") =
           (CASE (i - 1) % 3 = 0 -> "A" [] (i - 1) % 3 = 1 -> "B" [] (i - 1) % 3 = 2 -> "C")

C7_Witness ==
  /\ Len(synth.runs) >= 1
  /\ synth.rows >= 10
  /\ Cell(synth.runs[1].table, 10, "name") = "sample2_item_10"

\* C8 as stated: two runs of a synthesizer with the same parameters give
\* equal tables, for generate_data and for create_test_data.
C8_SameParametersSameTable ==
  /\ \A a, b \in DOMAIN synth.runs : synth.runs[a].table = synth.runs[b].table
  /\ \A a, b \in DOMAIN synth.runsA : synth.runsA[a].table = synth.runsA[b].table

\* C8 amended: the runs of create_test_data give equal tables of n_rows
\* rows, whatever state the generator of each process started from; two
\* calls of generate_data with the same prefix and row count give tables
\* with the same columns and rows that are equal in every column except
\* date, the date of row i being the day of the call minus i days, so that
\* the tables are equal when both calls read the same calendar day.
C8_SameParametersSameTableButDate ==
  /\ \A a, b \in DOMAIN synth.runsA : synth.runsA[a].table = synth.runsA[b].table
  /\ \A a \in DOMAIN synth.runsA : NumRows(synth.runsA[a].table) = n_rows
  /\ \A a, b \in DOMAIN synth.runs :
       LET ta == synth.runs[a].table
           tb == synth.runs[b].table
       IN  /\ ta.columns = tb.columns
           /\ NumRows(ta) = NumRows(tb)
           /\ \A i \in 1..NumRows(ta) :
                /\ Cell(ta, i, "date") = synth.runs[a].now - i
                /\ \A c \in {ta.columns[k] : k \in DOMAIN ta.columns} \ {"date"} :
                     Cell(ta, i, c) = Cell(tb, i, c)
           /\ synth.runs[a].now = synth.runs[b].now => ta = tb

C8_Witness ==
  /\ pc = "exit"
  /\ exitCode = 0
  /\ Len(synth.runsA) >= 2
  /\ synth.runsA[1].entropy # synth.runsA[2].entropy
  /\ synth.runsA[1].table = synth.runsA[2].table
  /\ files[output_file] = <<to_parquet(df)>>
  /\ stdout = Report(df)

====
